---- MODULE Spec2Model ----
(***************************************************************************)
(* Coordinator of json-harmony (src/src/server/server.py), class           *)
(* DistributedComputeServer, as a state machine.                           *)
(*                                                                         *)
(* The coordinator runs on one asyncio event loop.  Every coroutine runs   *)
(* without interruption from one `await` that really suspends to the next, *)
(* so one action of this module is one such uninterrupted stretch of code. *)
(* The suspension points that separate two writes of coordinator state are *)
(*   - the send of a task message in assign_pending_tasks (line 129),      *)
(*   - the sends of broadcast_server_status reached from monitor_clients   *)
(*     through unregister_client (lines 289, 70, 258): the sweep goes on   *)
(*     to the next client after them,                                      *)
(*   - asyncio.sleep(10) of monitor_clients (line 293),                    *)
(*   - the wait for the next message of a connection (line 267).           *)
(* Every other call of broadcast_server_status is the last thing its       *)
(* handler does and writes no field of the coordinator: the handler's      *)
(* action ends with its last write.                                        *)
(*                                                                         *)
(* A client id is the uuid drawn per connection (line 264), so connection  *)
(* and client id are the same value here.  Task ids are 1, 2, ... in       *)
(* creation order, which is also the iteration order of self.tasks.        *)
(***************************************************************************)
EXTENDS Integers, Sequences, FiniteSets, TLC

\* ---------------------------------------------------------------- bounds
NumConns == 2          \* connections accepted over the run
MaxTasks == 2          \* calls of create_task over the run
MaxTime == 31          \* the clock stops here
TickStep == 31         \* granularity of the clock
MaxCount == 2          \* cap of the two counters
MaxQueue == 3          \* cap of len(pending_tasks)
MaxSent == 2           \* cap of the per-task count of task messages

\* ------------------------------------------------------ program constants
Timeout == 30          \* monitor_clients: current_time - last_seen > 30
SleepPeriod == 10      \* monitor_clients: asyncio.sleep(10)
ExecTime == 0          \* message.get("execution_time", 0)

Conns == 1..NumConns
TaskIds == 1..MaxTasks
Creator == 0                     \* the flow that calls create_task
Flows == Conns \cup {Creator}    \* flows that can run assign_pending_tasks
NoClient == 0                    \* None in task["assignedTo"]
NoInfo == [status |-> "none", last_seen |-> 0]   \* key absent from client_info
NoPass == [tl |-> <<>>, idle |-> <<>>, cur |-> NoClient, open0 |-> FALSE]
NoRun == [phase |-> "none", f |-> Creator, idle0 |-> <<>>, pend0 |-> <<>>,
          sent |-> <<>>, tried |-> <<>>, alone |-> FALSE, allok |-> FALSE]
NoEv == [kind |-> "none", t |-> 0, c |-> NoClient]
NoWatch == [timedOut |-> {}, requeued |-> {}]
NoBc == [on |-> FALSE, pos |-> 0, to |-> NoClient, n0 |-> 0, targets |-> {}, tried |-> {}]
NoOp == [operation |-> "none", acols |-> 0, brows |-> 0]
\* DistributedComputeClient.__init__ and connect: the register message is on its way
NewWorker == [running |-> TRUE, pc |-> "get", cur |-> <<>>, task_queue |-> <<>>,
              down |-> <<>>, up |-> <<[type |-> "register", t |-> 0, why |-> "connect"]>>,
              got |-> <<>>, said |-> <<>>]

VARIABLES
    clients,               \* keys of self.clients (= keys of self.client_info), insertion order
    client_info,           \* self.client_info: status and last_seen per key
    tasks,                 \* self.tasks: sequence of [status, assignedTo], index = task id
    pending_tasks,         \* self.pending_tasks
    total_completed_tasks, \* self.total_completed_tasks
    total_failed_tasks,    \* self.total_failed_tasks
    latencies,             \* self.latencies
    now,                   \* time.time()
    connState,             \* per connection: "open", "closed" (transport gone, finally not yet run), "done"
    pass,                  \* per flow: frame of the assign_pending_tasks call suspended in send, or NoPass
    mon,                   \* frame of monitor_clients
    dispatched,            \* history: task messages sent for a task since it last entered the queue
    errored,               \* history: tasks named by an "error" message while processing
    run,                   \* history: the dispatch pass under observation, from its start
    ev,                    \* history: what the last step did, NoEv if nothing of note
    watch,                 \* history: the clients timed out and not registered since
    ops,                   \* per task: task["type"] and task["dimensions"]
    wk,                    \* per connection: the worker at its other end and the two directions of the channel
    slots,                 \* the entries of the dict self.clients in insertion order, 0 for a deleted one
    bc                     \* per flow: frame of the broadcast_server_status call suspended in a send

\* the state of the coordinator, of the connections and of the clock
cvars == <<clients, client_info, tasks, pending_tasks, total_completed_tasks,
           total_failed_tasks, latencies, now, connState, pass, mon, dispatched, errored>>

\* the observations: run by SpecDispatch, watch by SpecMonitor, ev by both
obs == <<run, ev, watch>>

\* the tasks' payload and the workers, which only SpecWorker follows
wvars == <<ops, wk>>

\* the layout of self.clients and the broadcasts, which only SpecBroadcast follows
bvars == <<slots, bc>>

vars == <<cvars, obs, wvars, bvars>>

\* ---------------------------------------------------------------- helpers
Range(s) == {s[i] : i \in 1..Len(s)}

Min(a, b) == IF a < b THEN a ELSE b

Registered == Range(clients)

\* list.remove(x): drops the first occurrence
RECURSIVE Remove(_, _)
Remove(s, x) ==
    IF s = <<>> THEN <<>>
    ELSE IF Head(s) = x THEN Tail(s)
    ELSE <<Head(s)>> \o Remove(Tail(s), x)

\* del d[k] on an insertion-ordered dict
DelKey(s, k) == SelectSeq(s, LAMBDA x : x # k)

\* d[k] = v on an insertion-ordered dict: a present key keeps its place
SetKey(s, k) == IF k \in Range(s) THEN s ELSE Append(s, k)

MonSleep(wake) ==
    [pc |-> "sleep", wakeAt |-> wake, ct |-> 0, rest |-> <<>>, n0 |-> 0, left |-> 0]

\* ------------------------------------------------------------------ state
Init ==
    /\ clients = <<>>
    /\ client_info = [c \in Conns |-> NoInfo]
    /\ tasks = <<>>
    /\ pending_tasks = <<>>
    /\ total_completed_tasks = 0
    /\ total_failed_tasks = 0
    /\ latencies = <<>>
    /\ now = 0
    /\ connState = [c \in Conns |-> "open"]
    /\ pass = [f \in Flows |-> NoPass]
    /\ mon = MonSleep(0)
    /\ dispatched = [t \in TaskIds |-> 0]
    /\ errored = {}
    /\ run = NoRun
    /\ ev = NoEv
    /\ watch = NoWatch
    /\ ops = [t \in TaskIds |-> NoOp]
    /\ wk = [c \in Conns |-> NewWorker]
    /\ slots = <<>>
    /\ bc = [f \in Flows |-> NoBc]

\* ------------------------------------------------- monitor's view of info
\* monitor_clients iterates list(self.client_info.items()): the list holds the
\* info dicts themselves.  An entry is live while its dict is still the one in
\* client_info (a heartbeat then shows through); register_client installs a new
\* dict and unregister_client drops the dict, after which the entry keeps the
\* last_seen the old dict had.
Detach(m, c) ==
    [m EXCEPT !.rest =
        [i \in 1..Len(m.rest) |->
            IF m.rest[i].id = c /\ m.rest[i].live
            THEN [id |-> c, live |-> FALSE, ls |-> client_info[c].last_seen]
            ELSE m.rest[i]]]

EntryLastSeen(e) == IF e.live THEN client_info[e.id].last_seen ELSE e.ls

\* ------------------------------------------------------ unregister_client
\* ids of the tasks the loop of lines 60-64 requeues, in self.tasks order
RequeuedBy(c) ==
    SelectSeq([i \in 1..Len(tasks) |-> i],
              LAMBDA i : tasks[i].assignedTo = c /\ tasks[i].status = "processing")

TasksAfterUnregister(c) ==
    [i \in 1..Len(tasks) |->
        IF tasks[i].assignedTo = c /\ tasks[i].status = "processing"
        THEN [status |-> "pending", assignedTo |-> NoClient]
        ELSE tasks[i]]

\* unregister_client without the test of line 56: the requeue loop and the
\* deletions run for an id that is no longer registered too
unregister_client_unguarded(c) ==
    /\ Len(pending_tasks) + Len(RequeuedBy(c)) <= MaxQueue
    /\ clients' = DelKey(clients, c)
    /\ client_info' = [client_info EXCEPT ![c] = NoInfo]
    /\ tasks' = TasksAfterUnregister(c)
    /\ pending_tasks' = pending_tasks \o RequeuedBy(c)
    /\ dispatched' = [t \in TaskIds |->
           IF t \in Range(RequeuedBy(c)) THEN 0 ELSE dispatched[t]]

\* unregister_client with pending_tasks.insert(0, task_id) at line 64
unregister_client_requeue_first(c) ==
    IF c \in Registered
    THEN /\ Len(pending_tasks) + Len(RequeuedBy(c)) <= MaxQueue
         /\ clients' = DelKey(clients, c)
         /\ client_info' = [client_info EXCEPT ![c] = NoInfo]
         /\ tasks' = TasksAfterUnregister(c)
         /\ pending_tasks' = RequeuedBy(c) \o pending_tasks
         /\ dispatched' = [t \in TaskIds |->
                IF t \in Range(RequeuedBy(c)) THEN 0 ELSE dispatched[t]]
    ELSE UNCHANGED <<clients, client_info, tasks, pending_tasks, dispatched>>

\* lines 56-66, on every variable but mon and the flows
unregister_client(c) ==
    IF c \in Registered
    THEN /\ Len(pending_tasks) + Len(RequeuedBy(c)) <= MaxQueue
         /\ clients' = DelKey(clients, c)
         /\ client_info' = [client_info EXCEPT ![c] = NoInfo]
         /\ tasks' = TasksAfterUnregister(c)
         /\ pending_tasks' = pending_tasks \o RequeuedBy(c)
         /\ dispatched' = [t \in TaskIds |->
                IF t \in Range(RequeuedBy(c)) THEN 0 ELSE dispatched[t]]
    ELSE UNCHANGED <<clients, client_info, tasks, pending_tasks, dispatched>>

\* ---------------------------------------------------- assign_pending_tasks
\* The head of one loop iteration, lines 113-129, run until the pass suspends
\* in a send or ends: `tl` is what is left of list(self.pending_tasks), `idle`
\* is idle_clients, `regs` the keys of self.clients.  self.clients[client_id]
\* raises KeyError for an unregistered client; the handler of line 140 then
\* finds it absent from client_info and the loop goes on to the next task.
\* LoopHead with idle_clients[0] in place of idle_clients.pop(0) at line 117:
\* the client taken stays in the idle list
RECURSIVE LoopHead_no_pop(_, _, _)
LoopHead_no_pop(tl, idle, regs) ==
    IF tl = <<>> \/ idle = <<>> THEN NoPass
    ELSE IF Head(idle) \in regs
         THEN [tl |-> tl, idle |-> idle, cur |-> Head(idle),
               open0 |-> connState[Head(idle)] = "open"]
         ELSE LoopHead_no_pop(Tail(tl), Tail(idle), regs)

RECURSIVE LoopHead(_, _, _)
LoopHead(tl, idle, regs) ==
    IF tl = <<>> \/ idle = <<>> THEN NoPass
    ELSE IF Head(idle) \in regs
         THEN [tl |-> tl, idle |-> Tail(idle), cur |-> Head(idle),
               open0 |-> connState[Head(idle)] = "open"]
         ELSE LoopHead(Tail(tl), Tail(idle), regs)

\* lines 100-111 and the first loop head, for the state (pend, info, regs)
idle_clients(info, regs) == SelectSeq(regs, LAMBDA c : info[c].status = "idle")

assign_pending_tasks(pend, info, regs) ==
    IF pend = <<>> THEN NoPass
    ELSE IF idle_clients(info, regs) = <<>> THEN NoPass
    ELSE LoopHead(pend, idle_clients(info, regs), Range(regs))

\* one more task message counted for task t
CountSend(t) == [dispatched EXCEPT ![t] = Min(@ + 1, MaxSent)]

\* SendReturn with pending_tasks.remove (line 136) done before the send: a
\* send that raises leaves the task out of the queue
SendReturn_commit_first(f, ok) ==
    /\ pass[f] # NoPass
    /\ LET fr == pass[f]
           t == Head(fr.tl)
           c == fr.cur
       IN  /\ IF ok THEN fr.open0 ELSE connState[c] # "open"
           /\ IF ok
              THEN IF c \notin Registered
                   THEN \* line 135 raises KeyError after lines 132-134 ran
                        /\ tasks' = [tasks EXCEPT ![t] =
                                        [status |-> "processing", assignedTo |-> c]]
                        /\ dispatched' = CountSend(t)
                        /\ pass' = [pass EXCEPT ![f] =
                                        LoopHead(Tail(fr.tl), fr.idle, Registered)]
                        /\ UNCHANGED <<client_info, pending_tasks>>
                   ELSE IF t \in Range(pending_tasks)
                   THEN /\ tasks' = [tasks EXCEPT ![t] =
                                        [status |-> "processing", assignedTo |-> c]]
                        /\ dispatched' = CountSend(t)
                        /\ client_info' = [client_info EXCEPT ![c].status = "computing"]
                        /\ pending_tasks' = Remove(pending_tasks, t)
                        /\ pass' = [pass EXCEPT ![f] =
                                        LoopHead(Tail(fr.tl), fr.idle, Registered)]
                   ELSE \* line 136 raises ValueError: the handler of line 140 runs
                        /\ tasks' = [tasks EXCEPT ![t] =
                                        [status |-> "processing", assignedTo |-> c]]
                        /\ dispatched' = CountSend(t)
                        /\ client_info' = [client_info EXCEPT ![c].status = "idle"]
                        /\ pass' = [pass EXCEPT ![f] =
                                        LoopHead(Tail(fr.tl), Append(fr.idle, c), Registered)]
                        /\ UNCHANGED pending_tasks
              ELSE IF c \in Registered
                   THEN /\ client_info' = [client_info EXCEPT ![c].status = "idle"]
                        /\ pending_tasks' = Remove(pending_tasks, t)
                        /\ pass' = [pass EXCEPT ![f] =
                                        LoopHead(Tail(fr.tl), Append(fr.idle, c), Registered)]
                        /\ UNCHANGED <<tasks, dispatched>>
                   ELSE /\ pending_tasks' = Remove(pending_tasks, t)
                        /\ pass' = [pass EXCEPT ![f] =
                                        LoopHead(Tail(fr.tl), fr.idle, Registered)]
                        /\ UNCHANGED <<client_info, tasks, dispatched>>
    /\ UNCHANGED <<clients, total_completed_tasks, total_failed_tasks, latencies,
                   now, connState, mon, errored>>

\* SendReturn for a loop `while self.pending_tasks and idle_clients` that takes
\* the head of the queue each time, in place of the `for` over the copy of
\* line 113: after a send that raised, the same task is tried again
SendReturn_retry_same(f, ok) ==
    /\ pass[f] # NoPass
    /\ LET fr == pass[f]
           t == Head(fr.tl)
           c == fr.cur
       IN  /\ IF ok THEN fr.open0 ELSE connState[c] # "open"
           /\ IF ok
              THEN IF c \notin Registered
                   THEN \* line 135 raises KeyError after lines 132-134 ran
                        /\ tasks' = [tasks EXCEPT ![t] =
                                        [status |-> "processing", assignedTo |-> c]]
                        /\ dispatched' = CountSend(t)
                        /\ pass' = [pass EXCEPT ![f] =
                                        LoopHead(Tail(fr.tl), fr.idle, Registered)]
                        /\ UNCHANGED <<client_info, pending_tasks>>
                   ELSE IF t \in Range(pending_tasks)
                   THEN /\ tasks' = [tasks EXCEPT ![t] =
                                        [status |-> "processing", assignedTo |-> c]]
                        /\ dispatched' = CountSend(t)
                        /\ client_info' = [client_info EXCEPT ![c].status = "computing"]
                        /\ pending_tasks' = Remove(pending_tasks, t)
                        /\ pass' = [pass EXCEPT ![f] =
                                        LoopHead(Tail(fr.tl), fr.idle, Registered)]
                   ELSE \* line 136 raises ValueError: the handler of line 140 runs
                        /\ tasks' = [tasks EXCEPT ![t] =
                                        [status |-> "processing", assignedTo |-> c]]
                        /\ dispatched' = CountSend(t)
                        /\ client_info' = [client_info EXCEPT ![c].status = "idle"]
                        /\ pass' = [pass EXCEPT ![f] =
                                        LoopHead(Tail(fr.tl), Append(fr.idle, c), Registered)]
                        /\ UNCHANGED pending_tasks
              ELSE IF c \in Registered
                   THEN /\ client_info' = [client_info EXCEPT ![c].status = "idle"]
                        /\ pass' = [pass EXCEPT ![f] =
                                        LoopHead(fr.tl, Append(fr.idle, c), Registered)]
                        /\ UNCHANGED <<tasks, pending_tasks, dispatched>>
                   ELSE /\ pass' = [pass EXCEPT ![f] =
                                        LoopHead(fr.tl, fr.idle, Registered)]
                        /\ UNCHANGED <<client_info, tasks, pending_tasks, dispatched>>
    /\ UNCHANGED <<clients, total_completed_tasks, total_failed_tasks, latencies,
                   now, connState, mon, errored>>

\* The send of line 129 returns (ok) or raises (~ok) in flow f, and the pass
\* runs on to its next send or to its end: lines 131-145, then 113-129.
\* A send raises only on a connection that is no longer open; it can still
\* return normally if the connection was open when it began.
SendReturn(f, ok) ==
    /\ pass[f] # NoPass
    /\ LET fr == pass[f]
           t == Head(fr.tl)
           c == fr.cur
       IN  /\ IF ok THEN fr.open0 ELSE connState[c] # "open"
           /\ IF ok
              THEN IF c \notin Registered
                   THEN \* line 135 raises KeyError after lines 132-134 ran
                        /\ tasks' = [tasks EXCEPT ![t] =
                                        [status |-> "processing", assignedTo |-> c]]
                        /\ dispatched' = CountSend(t)
                        /\ pass' = [pass EXCEPT ![f] =
                                        LoopHead(Tail(fr.tl), fr.idle, Registered)]
                        /\ UNCHANGED <<client_info, pending_tasks>>
                   ELSE IF t \in Range(pending_tasks)
                   THEN /\ tasks' = [tasks EXCEPT ![t] =
                                        [status |-> "processing", assignedTo |-> c]]
                        /\ dispatched' = CountSend(t)
                        /\ client_info' = [client_info EXCEPT ![c].status = "computing"]
                        /\ pending_tasks' = Remove(pending_tasks, t)
                        /\ pass' = [pass EXCEPT ![f] =
                                        LoopHead(Tail(fr.tl), fr.idle, Registered)]
                   ELSE \* line 136 raises ValueError: the handler of line 140 runs
                        /\ tasks' = [tasks EXCEPT ![t] =
                                        [status |-> "processing", assignedTo |-> c]]
                        /\ dispatched' = CountSend(t)
                        /\ client_info' = [client_info EXCEPT ![c].status = "idle"]
                        /\ pass' = [pass EXCEPT ![f] =
                                        LoopHead(Tail(fr.tl), Append(fr.idle, c), Registered)]
                        /\ UNCHANGED pending_tasks
              ELSE IF c \in Registered
                   THEN /\ client_info' = [client_info EXCEPT ![c].status = "idle"]
                        /\ pass' = [pass EXCEPT ![f] =
                                        LoopHead(Tail(fr.tl), Append(fr.idle, c), Registered)]
                        /\ UNCHANGED <<tasks, pending_tasks, dispatched>>
                   ELSE /\ pass' = [pass EXCEPT ![f] =
                                        LoopHead(Tail(fr.tl), fr.idle, Registered)]
                        /\ UNCHANGED <<client_info, tasks, pending_tasks, dispatched>>
    /\ UNCHANGED <<clients, total_completed_tasks, total_failed_tasks, latencies,
                   now, connState, mon, errored>>

\* ------------------------------------------------------------- create_task
\* create_task, lines 74-91, up to the first send of its dispatch pass
create_task ==
    /\ pass[Creator] = NoPass
    /\ Len(tasks) < MaxTasks
    /\ Len(pending_tasks) < MaxQueue
    /\ tasks' = Append(tasks, [status |-> "pending", assignedTo |-> NoClient])
    /\ pending_tasks' = Append(pending_tasks, Len(tasks) + 1)
    /\ pass' = [pass EXCEPT ![Creator] =
                    assign_pending_tasks(pending_tasks', client_info, clients)]
    /\ UNCHANGED <<clients, client_info, total_completed_tasks, total_failed_tasks,
                   latencies, now, connState, mon, dispatched, errored>>

\* --------------------------------------------------- handle_client_message
\* A connection takes its next message only when its previous handler has
\* returned (handle_connection awaits handle_client_message, line 270).
CanReceive(c) == connState[c] = "open" /\ pass[c] = NoPass

\* "register", lines 187-196 and register_client, lines 45-48
register_client(c) ==
    /\ CanReceive(c)
    /\ clients' = SetKey(clients, c)
    /\ client_info' = [client_info EXCEPT ![c] = [status |-> "idle", last_seen |-> now]]
    /\ mon' = Detach(mon, c)
    /\ UNCHANGED <<tasks, pending_tasks, total_completed_tasks, total_failed_tasks,
                   latencies, now, connState, pass, dispatched, errored>>

\* "heartbeat", lines 198-200
HeartbeatMsg(c) ==
    /\ CanReceive(c)
    /\ IF c \in Registered
       THEN client_info' = [client_info EXCEPT ![c].last_seen = now]
       ELSE UNCHANGED client_info
    /\ UNCHANGED <<clients, tasks, pending_tasks, total_completed_tasks,
                   total_failed_tasks, latencies, now, connState, pass, mon, dispatched, errored>>

\* handle_task_result without the owner check of lines 158-160: a result is
\* accepted from whichever client names the task
handle_task_result_any_sender(c, t, hasResult) ==
    /\ CanReceive(c)
    /\ IF ~hasResult \/ t > Len(tasks)
       THEN UNCHANGED cvars
       ELSE IF c \notin Registered
       THEN /\ tasks' = [tasks EXCEPT ![t].status = "completed"]
            /\ UNCHANGED <<clients, client_info, pending_tasks, total_completed_tasks,
                           total_failed_tasks, latencies, now, connState, pass, mon,
                           dispatched, errored>>
       ELSE /\ total_completed_tasks < MaxCount
            /\ tasks' = [tasks EXCEPT ![t].status = "completed"]
            /\ client_info' = [client_info EXCEPT ![c] =
                                    [status |-> "idle", last_seen |-> now]]
            /\ total_completed_tasks' = total_completed_tasks + 1
            /\ latencies' = Append(latencies, ExecTime)
            /\ pass' = [pass EXCEPT ![c] =
                            assign_pending_tasks(pending_tasks, client_info', clients)]
            /\ UNCHANGED <<clients, pending_tasks, total_failed_tasks, now,
                           connState, mon, dispatched, errored>>

\* "task_result", lines 202-208 and handle_task_result, lines 152-178, up to
\* the first send of its dispatch pass.  t may name no task; hasResult is
\* whether the message carries a result.
handle_task_result(c, t, hasResult) ==
    /\ CanReceive(c)
    /\ IF ~hasResult \/ t > Len(tasks)
       THEN UNCHANGED cvars
       ELSE IF tasks[t].assignedTo # c
       THEN UNCHANGED cvars
       ELSE IF c \notin Registered
       THEN \* line 168 raises KeyError after lines 163-165 ran
            /\ tasks' = [tasks EXCEPT ![t].status = "completed"]
            /\ UNCHANGED <<clients, client_info, pending_tasks, total_completed_tasks,
                           total_failed_tasks, latencies, now, connState, pass, mon,
                           dispatched, errored>>
       ELSE /\ total_completed_tasks < MaxCount
            /\ tasks' = [tasks EXCEPT ![t].status = "completed"]
            /\ client_info' = [client_info EXCEPT ![c] =
                                    [status |-> "idle", last_seen |-> now]]
            /\ total_completed_tasks' = total_completed_tasks + 1
            /\ latencies' = Append(latencies, ExecTime)
            /\ pass' = [pass EXCEPT ![c] =
                            assign_pending_tasks(pending_tasks, client_info', clients)]
            /\ UNCHANGED <<clients, pending_tasks, total_failed_tasks, now,
                           connState, mon, dispatched, errored>>

\* "error", lines 210-222
ErrorMsg(c, t) ==
    /\ CanReceive(c)
    /\ IF t > Len(tasks)
       THEN UNCHANGED cvars
       ELSE /\ total_failed_tasks < MaxCount
            /\ tasks' = [tasks EXCEPT ![t].status = "failed"]
            /\ total_failed_tasks' = total_failed_tasks + 1
            /\ IF c \in Registered
               THEN client_info' = [client_info EXCEPT ![c].status = "idle"]
               ELSE UNCHANGED client_info
            /\ errored' = IF tasks[t].status = "processing"
                          THEN errored \cup {t} ELSE errored
            /\ UNCHANGED <<clients, pending_tasks, total_completed_tasks, latencies,
                           now, connState, pass, mon, dispatched>>

\* -------------------------------------------------------- handle_connection
\* the transport of connection c goes away (the peer closes, the link fails)
NetClose(c) ==
    /\ connState[c] = "open"
    /\ connState' = [connState EXCEPT ![c] = "closed"]
    /\ UNCHANGED <<clients, client_info, tasks, pending_tasks, total_completed_tasks,
                   total_failed_tasks, latencies, now, pass, mon, dispatched, errored>>

\* lines 276-279: the message loop of c ends and unregister_client(c) runs
Teardown(c) ==
    /\ connState[c] = "closed"
    /\ pass[c] = NoPass
    /\ unregister_client(c)
    /\ mon' = Detach(mon, c)
    /\ connState' = [connState EXCEPT ![c] = "done"]
    /\ UNCHANGED <<total_completed_tasks, total_failed_tasks, latencies, now, pass,
                   errored>>

\* ---------------------------------------------------------- monitor_clients
\* line 287, for an entry of the list the sweep iterates
Stale(e, ct) == ct - EntryLastSeen(e) > Timeout

\* indices of the entries of `rest` for which line 289 changes the registry
Hits(rest, ct) ==
    {i \in 1..Len(rest) : Stale(rest[i], ct) /\ rest[i].id \in Registered}

FirstHit(rest, ct) == CHOOSE i \in Hits(rest, ct) : \A j \in Hits(rest, ct) : i <= j

\* The loop of lines 286-289 over `rest`, up to the next suspension.  An entry
\* that is not stale, or whose client is no longer registered, changes nothing.
\* unregister_client then broadcasts: with no client left there is no send and
\* the loop runs to its end (no entry left names a registered client);
\* otherwise the sweep is suspended in the first send of the broadcast.
Sweep(rest, ct) ==
    IF Hits(rest, ct) = {}
    THEN /\ mon' = MonSleep(now + SleepPeriod)
         /\ UNCHANGED <<clients, client_info, tasks, pending_tasks, dispatched>>
    ELSE LET i == FirstHit(rest, ct)
         IN  /\ unregister_client(rest[i].id)
             /\ mon' = IF clients' = <<>>
                       THEN MonSleep(now + SleepPeriod)
                       ELSE [pc |-> "bcast", wakeAt |-> 0, ct |-> ct,
                             rest |-> SubSeq(rest, i + 1, Len(rest)),
                             n0 |-> Len(clients'), left |-> Len(clients')]

\* lines 285-286: the sleep is over, a sweep starts
monitor_clients ==
    /\ mon.pc = "sleep"
    /\ now >= mon.wakeAt
    /\ Sweep([i \in 1..Len(clients) |-> [id |-> clients[i], live |-> TRUE, ls |-> 0]], now)
    /\ UNCHANGED <<total_completed_tasks, total_failed_tasks, latencies, now,
                   connState, pass, errored>>

\* A send of the broadcast (line 258) returns or raises, which line 259
\* swallows.  The next step of `for client in self.clients.values()` raises
\* RuntimeError if the dict changed size meanwhile; it leaves
\* unregister_client and the sweep, and line 290 catches it.
MonitorResume ==
    /\ mon.pc = "bcast"
    /\ IF Len(clients) # mon.n0
       THEN /\ mon' = MonSleep(now + SleepPeriod)
            /\ UNCHANGED <<clients, client_info, tasks, pending_tasks, dispatched>>
       ELSE IF mon.left > 1
       THEN /\ mon' = [mon EXCEPT !.left = @ - 1]
            /\ UNCHANGED <<clients, client_info, tasks, pending_tasks, dispatched>>
       ELSE Sweep(mon.rest, mon.ct)
    /\ UNCHANGED <<total_completed_tasks, total_failed_tasks, latencies, now,
                   connState, pass, errored>>

\* -------------------------------------------------------------------- time
Tick ==
    /\ now + TickStep <= MaxTime
    /\ now' = now + TickStep
    /\ UNCHANGED <<clients, client_info, tasks, pending_tasks, total_completed_tasks,
                   total_failed_tasks, latencies, connState, pass, mon, dispatched, errored>>

\* ------------------------------------------------------------ specification
Next ==
    \/ \E c \in Conns : register_client(c) /\ UNCHANGED <<obs, wvars, bvars>>
    \/ \E c \in Conns : HeartbeatMsg(c) /\ UNCHANGED <<obs, wvars, bvars>>
    \/ \E c \in Conns, t \in TaskIds, hasResult \in BOOLEAN :
          handle_task_result(c, t, hasResult) /\ UNCHANGED <<obs, wvars, bvars>>
    \/ \E c \in Conns, t \in TaskIds : ErrorMsg(c, t) /\ UNCHANGED <<obs, wvars, bvars>>
    \/ \E c \in Conns : NetClose(c) /\ UNCHANGED <<obs, wvars, bvars>>
    \/ \E c \in Conns : Teardown(c) /\ UNCHANGED <<obs, wvars, bvars>>
    \/ create_task /\ UNCHANGED <<obs, wvars, bvars>>
    \/ \E f \in Flows, ok \in BOOLEAN : SendReturn(f, ok) /\ UNCHANGED <<obs, wvars, bvars>>
    \/ monitor_clients /\ UNCHANGED <<obs, wvars, bvars>>
    \/ MonitorResume /\ UNCHANGED <<obs, wvars, bvars>>
    \/ Tick /\ UNCHANGED <<obs, wvars, bvars>>

Spec == Init /\ [][Next]_vars

\* ------------------------------------------- the dispatch pass, observed
\* SpecDispatch is the coordinator without its clock and monitor, with two
\* history variables.  run follows one call of assign_pending_tasks from its
\* first line to its return: the idle list of lines 104-107 and the queue as
\* the call found them, the clients its sends reached, the tasks for which it
\* began a send (tried), whether every send so far returned normally (allok) and whether no other step ran in between
\* (alone).  ev names the last step when it is a failed send or a requeue.

\* a step that is no part of the observed pass
Aside ==
    run' = IF run.phase = "running" THEN [run EXCEPT !.alone = FALSE] ELSE NoRun

\* flow f calls assign_pending_tasks in this step (lines 91, 178)
Begin(f) ==
    run' = IF run.phase = "running"
           THEN [run EXCEPT !.alone = FALSE]
           ELSE [phase |-> IF pass'[f] = NoPass THEN "done" ELSE "running",
                 f     |-> f,
                 idle0 |-> idle_clients(client_info', clients'),
                 pend0 |-> pending_tasks',
                 sent  |-> <<>>,
                 tried |-> IF pass'[f] = NoPass THEN <<>> ELSE <<Head(pass'[f].tl)>>,
                 alone |-> TRUE,
                 allok |-> TRUE]

\* a send of flow f returns or raises in this step
Advance(f, ok) ==
    run' = IF run.phase = "running" /\ run.f = f
           THEN [run EXCEPT !.phase = IF pass'[f] = NoPass THEN "done" ELSE "running",
                            !.sent = IF ok THEN Append(@, pass[f].cur) ELSE @,
                            !.tried = IF pass'[f] = NoPass \/ Len(@) > MaxQueue
                                      THEN @ ELSE Append(@, Head(pass'[f].tl)),
                            !.allok = @ /\ ok]
           ELSE IF run.phase = "running" THEN [run EXCEPT !.alone = FALSE] ELSE NoRun

ObsRegister(c) == register_client(c) /\ Aside /\ ev' = NoEv /\ UNCHANGED watch /\ UNCHANGED <<wvars, bvars>>

ObsResult(c, t) ==
    /\ handle_task_result(c, t, TRUE)
    /\ IF total_completed_tasks' # total_completed_tasks THEN Begin(c) ELSE Aside
    /\ ev' = NoEv
    /\ UNCHANGED watch
    /\ UNCHANGED <<wvars, bvars>>

ObsError(c, t) == ErrorMsg(c, t) /\ Aside /\ ev' = NoEv /\ UNCHANGED watch /\ UNCHANGED <<wvars, bvars>>

ObsNetClose(c) == NetClose(c) /\ Aside /\ ev' = NoEv /\ UNCHANGED watch /\ UNCHANGED <<wvars, bvars>>

ObsTeardown(c) ==
    /\ Teardown(c)
    /\ Aside
    /\ ev' = IF c \in Registered /\ RequeuedBy(c) # <<>>
             THEN [kind |-> "requeue", t |-> Head(RequeuedBy(c)), c |-> c]
             ELSE NoEv
    /\ UNCHANGED watch
    /\ UNCHANGED <<wvars, bvars>>

ObsCreate == create_task /\ Begin(Creator) /\ ev' = NoEv /\ UNCHANGED watch /\ UNCHANGED <<wvars, bvars>>

ObsSend(f, ok) ==
    /\ SendReturn(f, ok)
    /\ Advance(f, ok)
    /\ ev' = IF ok THEN NoEv
             ELSE [kind |-> "sendfail", t |-> Head(pass[f].tl), c |-> pass[f].cur]
    /\ UNCHANGED watch
    /\ UNCHANGED <<wvars, bvars>>

NextDispatch ==
    \/ \E c \in Conns : ObsRegister(c)
    \/ \E c \in Conns, t \in TaskIds : ObsResult(c, t)
    \/ \E c \in Conns, t \in TaskIds : ObsError(c, t)
    \/ \E c \in Conns : ObsNetClose(c)
    \/ \E c \in Conns : ObsTeardown(c)
    \/ ObsCreate
    \/ \E f \in Flows, ok \in BOOLEAN : ObsSend(f, ok)

SpecDispatch == Init /\ [][NextDispatch]_vars

\* a send that has begun returns or raises in the end (the transport either
\* takes the frame or reports the connection closed)
SpecDispatchFair ==
    SpecDispatch /\ \A f \in Flows : WF_vars(\E ok \in BOOLEAN : ObsSend(f, ok))

\* ------------------------------------------------ the monitor, observed
\* SpecMonitor is the coordinator with a clock of step FineStep, so that a
\* client can be seen Timeout old exactly, can heartbeat between two sweeps,
\* and a sweep can follow a sweep.  watch.timedOut are the clients the
\* monitor unregistered and that have not registered since, watch.requeued
\* those of them whose timeout requeued a task.  ev names the last step when
\* it is a timeout, or the teardown of a connection whose client had timed
\* out; ev.t is the first task a timeout requeued, 0 if none.
FineStep == 10         \* granularity of the clock of SpecMonitor
FineMax == 50          \* its clock stops here
MonTasks == 1          \* calls of create_task in SpecMonitor

Removed == {c \in Registered : c \notin Range(clients')}

MonRegister(c) ==
    /\ register_client(c)
    /\ watch' = [watch EXCEPT !.timedOut = @ \ {c}, !.requeued = @ \ {c}]
    /\ ev' = NoEv
    /\ UNCHANGED run
    /\ UNCHANGED <<wvars, bvars>>

MonHeartbeat(c) == HeartbeatMsg(c) /\ ev' = NoEv /\ UNCHANGED <<run, watch>> /\ UNCHANGED <<wvars, bvars>>

MonNetClose(c) == NetClose(c) /\ ev' = NoEv /\ UNCHANGED <<run, watch>> /\ UNCHANGED <<wvars, bvars>>

MonTeardown(c) ==
    /\ Teardown(c)
    /\ ev' = IF c \in watch.timedOut
             THEN [kind |-> "reclose", t |-> 0, c |-> c] ELSE NoEv
    /\ UNCHANGED <<run, watch>>
    /\ UNCHANGED <<wvars, bvars>>

MonCreate ==
    /\ Len(tasks) < MonTasks
    /\ create_task
    /\ ev' = NoEv
    /\ UNCHANGED <<run, watch>>
    /\ UNCHANGED <<wvars, bvars>>

MonSend(f, ok) == SendReturn(f, ok) /\ ev' = NoEv /\ UNCHANGED <<run, watch>> /\ UNCHANGED <<wvars, bvars>>

\* what a step of the monitor leaves in watch and ev
Swept ==
    /\ watch' = [timedOut |-> watch.timedOut \cup Removed,
                 requeued |-> watch.requeued \cup {c \in Removed : RequeuedBy(c) # <<>>}]
    /\ ev' = IF Removed = {} THEN NoEv
             ELSE LET c == CHOOSE d \in Removed : TRUE
                  IN  [kind |-> "timeout", c |-> c,
                       t |-> IF RequeuedBy(c) = <<>> THEN 0 ELSE Head(RequeuedBy(c))]
    /\ UNCHANGED run

MonWake == monitor_clients /\ Swept /\ UNCHANGED <<wvars, bvars>>

MonResume == MonitorResume /\ Swept /\ UNCHANGED <<wvars, bvars>>

TickFine ==
    /\ now + FineStep <= FineMax
    /\ now' = now + FineStep
    /\ ev' = NoEv
    /\ UNCHANGED <<clients, client_info, tasks, pending_tasks, total_completed_tasks,
                   total_failed_tasks, latencies, connState, pass, mon, dispatched,
                   errored, run, watch>>
    /\ UNCHANGED <<wvars, bvars>>

NextMonitor ==
    \/ \E c \in Conns : MonRegister(c)
    \/ \E c \in Conns : MonHeartbeat(c)
    \/ \E c \in Conns : MonNetClose(c)
    \/ \E c \in Conns : MonTeardown(c)
    \/ MonCreate
    \/ \E f \in Flows, ok \in BOOLEAN : MonSend(f, ok)
    \/ MonWake
    \/ MonResume
    \/ TickFine

SpecMonitor == Init /\ [][NextMonitor]_vars

\* The event loop runs a coroutine whose sleep is over or whose send has
\* returned, and time passes.
SpecMonitorFair ==
    SpecMonitor /\ WF_vars(MonWake) /\ WF_vars(MonResume) /\ WF_vars(TickFine)

\* SpecRequeue is SpecMonitor with the clock of Spec and MaxTasks tasks: a
\* client can time out while another task waits in the queue.
RqCreate == create_task /\ ev' = NoEv /\ UNCHANGED <<run, watch, wvars, bvars>>

RqTick == Tick /\ ev' = NoEv /\ UNCHANGED <<run, watch, wvars, bvars>>

NextRequeue ==
    \/ \E c \in Conns : MonRegister(c)
    \/ \E c \in Conns : MonNetClose(c)
    \/ \E c \in Conns : MonTeardown(c)
    \/ RqCreate
    \/ \E f \in Flows, ok \in BOOLEAN : MonSend(f, ok)
    \/ MonWake
    \/ MonResume
    \/ RqTick

SpecRequeue == Init /\ [][NextRequeue]_vars

\* ------------------------------------------------------------ the worker
\* SpecWorker is the coordinator with a worker (src/src/server/client.py,
\* class DistributedComputeClient) at the other end of every connection,
\* without clock and monitor.  wk[c].down are the task messages on their way
\* to worker c, wk[c].up its messages on their way to the coordinator, which
\* takes them in order.  wk[c].got lists the task ids of the task messages
\* worker c received, wk[c].said the replies it has sent, both in order.
\* perform_dot_product runs without suspension, so one step of process_tasks
\* goes from task_queue.get() to the send of the reply.

\* what create_task can be called with: (task_type, dimensions), with
\* dimensions reduced to the two numbers perform_dot_product compares
Payloads ==
    { [operation |-> "dot_product", acols |-> 2, brows |-> 2],
      [operation |-> "dot_product", acols |-> 2, brows |-> 1],
      [operation |-> "transpose",   acols |-> 2, brows |-> 2] }

\* perform_dot_product, lines 98-99: raises ValueError on these dimensions
Incompatible(p) == p.acols # p.brows

MaxSaid == 4           \* cap of the replies counted per worker

\* process_tasks, lines 137-164: the reply to task message t
Reply(t) ==
    IF ops[t].operation = "dot_product"
    THEN IF Incompatible(ops[t])
         THEN [type |-> "error", t |-> t, why |-> "failed"]
         ELSE [type |-> "task_result", t |-> t, why |-> "done"]
    ELSE [type |-> "error", t |-> t, why |-> "unsupported"]

WkCreate(p) ==
    /\ create_task
    /\ ops' = [ops EXCEPT ![Len(tasks) + 1] = p]
    /\ UNCHANGED <<obs, wk, bvars>>

\* server.py line 129 returns or raises; a task message sent is on its way
WkDispatch(f, ok) ==
    /\ SendReturn(f, ok)
    /\ wk' = IF ok
             THEN [wk EXCEPT ![pass[f].cur].down = Append(@, Head(pass[f].tl))]
             ELSE wk
    /\ UNCHANGED <<obs, ops, bvars>>

\* server.py handle_connection, line 267-270: the next message of worker c
WkServe(c) ==
    /\ wk[c].up # <<>>
    /\ LET m == Head(wk[c].up)
       IN  CASE m.type = "register"    -> register_client(c)
             [] m.type = "task_result" -> handle_task_result(c, m.t, TRUE)
             [] m.type = "error"       -> ErrorMsg(c, m.t)
    /\ wk' = [wk EXCEPT ![c].up = Tail(@)]
    /\ UNCHANGED <<obs, ops, bvars>>

WkNetClose(c) == NetClose(c) /\ UNCHANGED <<obs, wvars, bvars>>

WkTeardown(c) == Teardown(c) /\ UNCHANGED <<obs, wvars, bvars>>

\* receive_messages, lines 180-186: a task message goes to task_queue
receive_messages(c) ==
    /\ wk[c].down # <<>>
    /\ wk' = [wk EXCEPT ![c].down = Tail(@),
                        ![c].task_queue = Append(@, Head(wk[c].down)),
                        ![c].got = Append(@, Head(wk[c].down))]
    /\ UNCHANGED <<cvars, obs, ops, bvars>>

\* receive_messages, lines 194-196: the connection is closed
WkClosed(c) ==
    /\ connState[c] # "open"
    /\ wk[c].running
    /\ wk' = [wk EXCEPT ![c].running = FALSE]
    /\ UNCHANGED <<cvars, obs, ops, bvars>>

\* process_tasks without taking the task off task_queue
process_tasks_no_pop(c) ==
    /\ wk[c].pc = "get"
    /\ wk[c].task_queue # <<>>
    /\ Len(wk[c].said) < MaxSaid
    /\ wk' = [wk EXCEPT ![c].cur = <<Reply(Head(wk[c].task_queue))>>,
                        ![c].pc = "send"]
    /\ UNCHANGED <<cvars, obs, ops, bvars>>

\* process_tasks, lines 129-164, up to the send inside send_message
process_tasks(c) ==
    /\ wk[c].pc = "get"
    /\ wk[c].task_queue # <<>>
    /\ wk' = [wk EXCEPT ![c].task_queue = Tail(@),
                        ![c].cur = <<Reply(Head(wk[c].task_queue))>>,
                        ![c].pc = "send"]
    /\ UNCHANGED <<cvars, obs, ops, bvars>>

\* send_message, lines 66-70, then process_tasks lines 166-167 and the loop
\* test of line 127.  The send raises only on a closed connection.
send_message(c, ok) ==
    /\ wk[c].pc = "send"
    /\ IF ok THEN connState[c] = "open" ELSE connState[c] # "open"
    /\ LET r == ok /\ wk[c].running
       IN  wk' = [wk EXCEPT ![c].up = IF ok THEN Append(@, Head(wk[c].cur)) ELSE @,
                            ![c].said = IF ok THEN Append(@, Head(wk[c].cur)) ELSE @,
                            ![c].cur = <<>>,
                            ![c].running = r,
                            ![c].pc = IF r THEN "get" ELSE "exit"]
    /\ UNCHANGED <<cvars, obs, ops, bvars>>

NextWorker ==
    \/ \E p \in Payloads : WkCreate(p)
    \/ \E f \in Flows, ok \in BOOLEAN : WkDispatch(f, ok)
    \/ \E c \in Conns : WkServe(c)
    \/ \E c \in Conns : WkNetClose(c)
    \/ \E c \in Conns : WkTeardown(c)
    \/ \E c \in Conns : receive_messages(c)
    \/ \E c \in Conns : WkClosed(c)
    \/ \E c \in Conns : process_tasks(c)
    \/ \E c \in Conns, ok \in BOOLEAN : send_message(c, ok)

SpecWorker == Init /\ [][NextWorker]_vars

\* The worker's event loop runs process_tasks when the queue has a task, and
\* a send returns or raises.
SpecWorkerFair ==
    /\ SpecWorker
    /\ \A c \in Conns : WF_vars(process_tasks(c))
    /\ \A c \in Conns : WF_vars(\E ok \in BOOLEAN : send_message(c, ok))

\* ---------------------------------------------------------- the broadcast
\* SpecBroadcast follows broadcast_server_status (lines 256-260) send by
\* send.  `for client in self.clients.values()` walks the entries of the dict
\* by position: a deleted entry is passed over, an inserted one lies behind
\* all others, and the step to the next entry raises RuntimeError when the
\* dict has another size than at the start of the loop.  bc[f] is the loop of
\* flow f: the position and the client of the send under way, the size at
\* the start, the clients registered at the start (targets) and those a send
\* was begun for (tried).
NextSlot(pos) ==
    IF \E i \in (pos + 1)..Len(slots) : slots[i] # 0
    THEN CHOOSE i \in (pos + 1)..Len(slots) :
             slots[i] # 0 /\ \A j \in (pos + 1)..(i - 1) : slots[j] = 0
    ELSE 0

\* flow f reaches line 256 in this step
broadcast_server_status(f) ==
    bc' = [bc EXCEPT ![f] =
             IF clients' = <<>> THEN NoBc
             ELSE LET first == CHOOSE i \in 1..Len(slots') :
                                  slots'[i] # 0 /\ \A j \in 1..(i - 1) : slots'[j] = 0
                  IN  [on |-> TRUE, pos |-> first, to |-> slots'[first],
                       n0 |-> Len(clients'),
                       targets |-> Range(clients'), tried |-> {slots'[first]}]]

BcRegister(c) ==
    /\ ~bc[c].on
    /\ register_client(c)
    /\ slots' = IF c \in Registered THEN slots ELSE Append(slots, c)
    /\ broadcast_server_status(c)
    /\ UNCHANGED <<obs, wvars>>

BcNetClose(c) == NetClose(c) /\ UNCHANGED <<obs, wvars, bvars>>

BcTeardown(c) ==
    /\ ~bc[c].on
    /\ Teardown(c)
    /\ slots' = [i \in 1..Len(slots) |-> IF slots[i] = c THEN 0 ELSE slots[i]]
    /\ IF c \in Registered THEN broadcast_server_status(c) ELSE UNCHANGED bc
    /\ UNCHANGED <<obs, wvars>>

\* the send of line 258 returns, or raises and line 259 catches it; then the
\* loop steps to the next entry
BcSend(f, ok) ==
    /\ bc[f].on
    /\ ok \/ connState[bc[f].to] # "open"
    /\ bc' = [bc EXCEPT ![f] =
                 IF Len(clients) # bc[f].n0 THEN NoBc       \* RuntimeError
                 ELSE IF NextSlot(bc[f].pos) = 0 THEN NoBc   \* StopIteration
                 ELSE [@ EXCEPT !.pos = NextSlot(bc[f].pos),
                                !.to = slots[NextSlot(bc[f].pos)],
                                !.tried = @ \cup {slots[NextSlot(bc[f].pos)]}]]
    /\ UNCHANGED <<cvars, obs, wvars, slots>>

NextBroadcast ==
    \/ \E c \in Conns : BcRegister(c)
    \/ \E c \in Conns : BcNetClose(c)
    \/ \E c \in Conns : BcTeardown(c)
    \/ \E f \in Flows, ok \in BOOLEAN : BcSend(f, ok)

SpecBroadcast == Init /\ [][NextBroadcast]_vars

\* ================================================================== claims
Known == 1..Len(tasks)

Holds(c) == {t \in Known : tasks[t].status = "processing" /\ tasks[t].assignedTo = c}

\* C1: in every reachable state, a task's status is "processing" if and only
\* if its assignedTo is set; a completed or failed task carries no assignment.
C1_ProcessingIffAssigned ==
    \A t \in Known : tasks[t].status = "processing" <=> tasks[t].assignedTo # NoClient

\* C2: in every reachable state no client id is the assignedTo of more than
\* one task whose status is "processing".
C2_OneProcessingTaskPerClient ==
    \A c \in Conns : Cardinality(Holds(c)) <= 1

\* C3: in every reachable state pending_tasks holds exactly the ids of the
\* tasks whose status is "pending", each exactly once.
C3_QueueIsThePendingTasks ==
    /\ Range(pending_tasks) = {t \in Known : tasks[t].status = "pending"}
    /\ \A i, j \in 1..Len(pending_tasks) : pending_tasks[i] = pending_tasks[j] => i = j

\* C4: in every reachable state every task with status "processing" is
\* assigned to a client that is currently registered.
C4_ProcessingTaskHasRegisteredClient ==
    \A t \in Known : tasks[t].status = "processing" => tasks[t].assignedTo \in Registered

\* C5: a task message for a task is sent at most once between the moment the
\* task enters the pending queue and the moment it is next requeued, and a
\* task message is never sent to a worker that still holds a processing task.
C5_NoDuplicateDispatch ==
    [][\A f \in Flows :
          (pass[f] # NoPass /\ SendReturn(f, TRUE))
          => /\ dispatched[Head(pass[f].tl)] = 0
             /\ Holds(pass[f].cur) \subseteq {Head(pass[f].tl)}]_vars

\* C6: when a client registers while a task is pending (and no other client
\* is idle and no dispatch pass is under way), handling the registration
\* starts the dispatch of the head pending task to that client.
C6_RegisterDispatches ==
    [][\A c \in Conns :
          (/\ register_client(c)
           /\ pending_tasks # <<>>
           /\ tasks[Head(pending_tasks)].status = "pending"
           /\ \A f \in Flows : pass[f] = NoPass
           /\ \A d \in Registered \ {c} : client_info[d].status # "idle")
          => \/ /\ pass'[c] # NoPass
                /\ pass'[c].cur = c
                /\ Head(pass'[c].tl) = Head(pending_tasks)
             \/ /\ tasks'[Head(pending_tasks)] = [status |-> "processing", assignedTo |-> c]
                /\ client_info'[c].status = "computing"]_vars

\* C7: completed and failed are terminal, and the only status transitions are
\* pending->processing, processing->completed, processing->failed and
\* processing->pending.
C7_TerminalStates ==
    [][\A t \in Known :
          \/ tasks'[t].status = tasks[t].status
          \/ <<tasks[t].status, tasks'[t].status>> \in
                {<<"pending", "processing">>, <<"processing", "completed">>,
                 <<"processing", "failed">>, <<"processing", "pending">>}]_vars

\* C8: when the connection of a client that holds a processing task T is torn
\* down, T becomes pending with no assignment, the client leaves the
\* registry, exactly one task is requeued, and every other task, every other
\* client record and both counters stay as they were.
C8_DisconnectRequeuesExactlyOne ==
    [][\A c \in Conns :
          (Teardown(c) /\ Holds(c) # {})
          => /\ \A t \in Holds(c) : tasks'[t] = [status |-> "pending", assignedTo |-> NoClient]
             /\ c \notin Range(clients')
             /\ Cardinality({t \in Known : tasks'[t] # tasks[t]}) = 1
             /\ Len(pending_tasks') = Len(pending_tasks) + 1
             /\ \A d \in Conns \ {c} : client_info'[d] = client_info[d]
             /\ total_completed_tasks' = total_completed_tasks
             /\ total_failed_tasks' = total_failed_tasks]_vars

\* C9: an "error" message that names a processing task T makes T failed, adds
\* exactly one to the failed counter and returns the client T was assigned to
\* to idle; and no task message is sent for T afterwards.
C9_ErrorFailsTaskAndFreesOwner ==
    /\ [][\A c \in Conns, t \in Known :
             (ErrorMsg(c, t) /\ tasks[t].status = "processing")
             => /\ tasks'[t].status = "failed"
                /\ total_failed_tasks' = total_failed_tasks + 1
                /\ tasks[t].assignedTo \in Registered
                      => client_info'[tasks[t].assignedTo].status = "idle"]_vars
    /\ [][\A f \in Flows :
             (pass[f] # NoPass /\ SendReturn(f, TRUE))
             => Head(pass[f].tl) \notin errored]_vars

\* C10: a task_result is accepted only for a task that is processing and
\* assigned to the sender: the completed counter grows only then, and a
\* task_result for a task that is already completed or failed changes no
\* task, no client status and no counter.
C10_ResultAcceptedOnce ==
    [][\A c \in Conns, t \in TaskIds :
          handle_task_result(c, t, TRUE)
          => /\ total_completed_tasks' # total_completed_tasks
                  => /\ t \in Known
                     /\ tasks[t] = [status |-> "processing", assignedTo |-> c]
             /\ (t \in Known /\ tasks[t].status \in {"completed", "failed"})
                  => /\ tasks' = tasks
                     /\ \A d \in Conns : client_info'[d].status = client_info[d].status
                     /\ total_completed_tasks' = total_completed_tasks
                     /\ total_failed_tasks' = total_failed_tasks]_vars

\* C11: a task_result that names no known task, or that comes from a client
\* other than the one the task is assigned to, is dropped: the task keeps its
\* status and assignment, and no client status, counter, latency sample or
\* pending-queue entry changes.
C11_ForeignResultDropped ==
    [][\A c \in Conns, t \in TaskIds :
          (handle_task_result(c, t, TRUE)
             /\ (t \notin Known \/ tasks[t].assignedTo # c))
          => UNCHANGED <<tasks, client_info, clients, total_completed_tasks,
                         total_failed_tasks, latencies, pending_tasks>>]_vars

\* a registered client can deliver a result for a task that is processing on
\* another client; dropping it leaves the coordinator in this very state
C11_ForeignResultArrives ==
    \E c \in Conns, t \in Known :
        /\ CanReceive(c)
        /\ c \in Registered
        /\ tasks[t].status = "processing"
        /\ tasks[t].assignedTo \in Registered \ {c}

\* C12: a dispatch pass that starts with N idle registered clients and
\* M <= N pending tasks, whose sends all succeed and which no other step
\* interleaves, ends with exactly those M tasks processing, each on a client
\* of its own, with the pending queue empty and N - M clients idle.
C12_PassAssignsAll ==
    (run.phase = "done" /\ run.alone /\ run.allok /\ Len(run.pend0) <= Len(run.idle0))
    => /\ Len(run.sent) = Len(run.pend0)
       /\ \A i \in 1..Len(run.pend0) :
             /\ tasks[run.pend0[i]].status = "processing"
             /\ tasks[run.pend0[i]].assignedTo = run.sent[i]
             /\ run.sent[i] \in Range(run.idle0)
       /\ \A i, j \in 1..Len(run.sent) : i # j => run.sent[i] # run.sent[j]
       /\ pending_tasks = <<>>
       /\ Len(idle_clients(client_info, clients)) = Len(run.idle0) - Len(run.pend0)

\* such a pass has run with two tasks and two clients
C12_TwoTasksTwoClients ==
    /\ run.phase = "done" /\ run.alone /\ run.allok
    /\ Len(run.pend0) = 2 /\ Len(run.idle0) = 2
    /\ Len(run.sent) = 2

\* C13: dispatch is FIFO by task and in registration order by worker: no task
\* is dispatched while a task ahead of it in the pending queue is still
\* pending, also after a failed send, and in a pass of its own the k-th
\* dispatched task is the k-th of the queue and goes to the k-th idle client.
C13_FifoDispatch ==
    [][\A f \in Flows :
          ObsSend(f, TRUE)
          => LET t == Head(pass[f].tl)
                 c == pass[f].cur
                 k == Len(run.sent) + 1
             IN  /\ \A i, j \in 1..Len(pending_tasks) :
                        (i < j /\ pending_tasks[j] = t /\ pending_tasks[i] # t)
                        => tasks[pending_tasks[i]].status # "pending"
                 /\ (run.phase = "running" /\ run.f = f /\ run.alone /\ run.allok)
                    => (t = run.pend0[k] /\ c = run.idle0[k])]_vars

\* C14: a registered client whose last_seen is more than Timeout old is
\* unregistered by the monitor with no disconnect needed (as long as the
\* clock lets the monitor wake once more), the timeout removes it and
\* requeues what it was processing, and this happens once: the later close
\* of its connection changes nothing, and no later step of the monitor
\* touches a task that names it.
TimedOut(c) == c \in Registered /\ now - client_info[c].last_seen > Timeout

C14_TimeoutOnce ==
    /\ \A c \in Conns :
          TimedOut(c) ~> (~TimedOut(c) \/ (mon.pc = "sleep" /\ mon.wakeAt > FineMax))
    /\ [][\A c \in Conns :
            /\ ((MonWake \/ MonResume) /\ c \in Removed)
               => /\ pending_tasks' = pending_tasks \o RequeuedBy(c)
                  /\ \A t \in Range(RequeuedBy(c)) :
                        tasks'[t] = [status |-> "pending", assignedTo |-> NoClient]
                  /\ Removed = {c}
            /\ (MonTeardown(c) /\ c \in watch.timedOut)
               => UNCHANGED <<clients, client_info, tasks, pending_tasks>>
            /\ ((MonWake \/ MonResume) /\ c \in watch.timedOut)
               => /\ c \notin Range(clients')
                  /\ \A t \in Known : tasks[t].assignedTo = c => tasks'[t] = tasks[t]]_vars

\* a client has timed out while holding a task, the task is back in the
\* queue, and its connection has been closed and torn down since
C14_ClosedAfterTimeout ==
    /\ ev.kind = "reclose"
    /\ ev.c \in watch.requeued
    /\ connState[ev.c] = "done"
    /\ \E t \in Range(pending_tasks) : tasks[t].status = "pending"

\* C15: when a worker was given a task whose operation it does not support,
\* the exchange that follows changes no coordinator state: the statuses of
\* the tasks, the two counters, the pending queue and the status of every
\* client are the same after the coordinator took the worker's message.
C15_UnsupportedChangesNothing ==
    [][\A c \in Conns :
          (/\ wk[c].up # <<>>
           /\ Head(wk[c].up).why = "unsupported"
           /\ WkServe(c))
          => /\ UNCHANGED <<tasks, total_completed_tasks, total_failed_tasks,
                            pending_tasks>>
             /\ \A d \in Conns : client_info'[d].status = client_info[d].status]_vars

\* C16: a broadcast begins a send to every client that is registered when
\* it starts and still is when it ends, whatever the sends do and whichever
\* clients register or are unregistered while it is suspended in a send.
C16_BroadcastReachesAll ==
    [][\A f \in Flows, ok \in BOOLEAN :
          (BcSend(f, ok) /\ ~bc'[f].on)
          => (bc[f].targets \cap Registered) \subseteq bc[f].tried]_vars

\* C17: a send of a task message that fails loses nothing: the task keeps
\* its status, its (absent) assignment and its place in the pending queue,
\* and the worker, if still registered, is idle again.
C17_FailedSendKeepsTask ==
    [][\A f \in Flows :
          ObsSend(f, FALSE)
          => /\ tasks' = tasks
             /\ pending_tasks' = pending_tasks
             /\ pass[f].cur \in Registered
                => client_info'[pass[f].cur].status = "idle"]_vars

\* a send has just failed: its task is pending, unassigned and at the front
\* of the queue, its worker is registered and idle
C17_TaskStillAtFront ==
    /\ ev.kind = "sendfail"
    /\ pending_tasks # <<>>
    /\ Head(pending_tasks) = ev.t
    /\ tasks[ev.t] = [status |-> "pending", assignedTo |-> NoClient]
    /\ ev.c \in Registered
    /\ client_info[ev.c].status = "idle"

\* C18: when a client is unregistered, by the close of its connection or by
\* the monitor, the tasks it was processing are appended to the pending
\* queue: the queue as it was is a prefix of the new queue, in the same
\* order, and what follows are exactly the requeued tasks, each pending.
C18_RequeueAtTail ==
    [][\A c \in Conns :
          c \in Removed
          => LET n == Len(pending_tasks)
                 m == Len(pending_tasks')
             IN  /\ m >= n
                 /\ SubSeq(pending_tasks', 1, n) = pending_tasks
                 /\ {pending_tasks'[i] : i \in (n + 1)..m} = Holds(c)
                 /\ m - n = Cardinality(Holds(c))
                 /\ \A t \in Holds(c) :
                        tasks'[t] = [status |-> "pending", assignedTo |-> NoClient]]_vars

\* a client has just timed out: its task is the last of the queue, behind a
\* task that was pending before
C18_TimedOutTaskIsLast ==
    /\ ev.kind = "timeout"
    /\ ev.t # 0
    /\ Len(pending_tasks) >= 2
    /\ pending_tasks[Len(pending_tasks)] = ev.t
    /\ Head(pending_tasks) # ev.t
    /\ tasks[Head(pending_tasks)].status = "pending"
    /\ tasks[ev.t].status = "pending"

\* C19: the monitor unregisters only stale clients: whenever a step of the
\* monitor unregisters a client, the last_seen of that client (as
\* registration, heartbeat and accepted result left it) is more than Timeout
\* old, so a client seen within the last Timeout time units stays registered.
C19_OnlyStaleRemoved ==
    [][\A c \in Conns :
          ((MonWake \/ MonResume) /\ c \in Removed)
          => now - client_info[c].last_seen > Timeout]_vars

\* C20: a worker handles the task messages it received one at a time and in
\* the order received, and sends one reply per task message: the k-th reply
\* names the k-th task received and is a task_result if the operation is
\* dot_product and the computation succeeds, an error otherwise; there is no
\* reply without a task received, and every task received gets its reply
\* unless the worker stops first.
Succeeds(t) == ops[t].operation = "dot_product" /\ ops[t].acols = ops[t].brows

C20_RepliesFollowTasks ==
    \A c \in Conns :
        /\ [](/\ Len(wk[c].said) <= Len(wk[c].got)
              /\ \A k \in 1..Len(wk[c].said) :
                    /\ wk[c].said[k].t = wk[c].got[k]
                    /\ wk[c].said[k].type = IF Succeeds(wk[c].got[k])
                                            THEN "task_result" ELSE "error")
        /\ \A k \in 1..MaxSaid :
              (Len(wk[c].got) >= k) ~> (Len(wk[c].said) >= k \/ wk[c].pc = "exit")

\* a worker has received two tasks and answered the first with a
\* task_result and the second with an error
C20_ResultThenError ==
    \E c \in Conns :
        /\ Len(wk[c].got) = 2
        /\ Len(wk[c].said) = 2
        /\ wk[c].got[1] # wk[c].got[2]
        /\ wk[c].said[1].type = "task_result"
        /\ wk[c].said[2].type = "error"

\* C21: in every reachable state a registered client has status "computing"
\* if and only if exactly one processing task is assigned to it: no client
\* computes with no task, and no idle client still holds a processing task.
C21_ComputingIffOneTask ==
    \A c \in Registered :
        client_info[c].status = "computing" <=> Cardinality(Holds(c)) = 1

\* the number of entries of s equal to x
Count(s, x) == Cardinality({i \in 1..Len(s) : s[i] = x})

\* C22: a dispatch pass terminates, also when its sends fail and the failed
\* workers go back into the idle list: it begins at most one send per entry
\* of the pending queue as the pass found it, every send shortens what is left
\* of that copy of the queue, and a pass that is under way ends.
C22_PassTerminates ==
    /\ [](\A t \in TaskIds : Count(run.tried, t) <= Count(run.pend0, t))
    /\ [][\A f \in Flows, ok \in BOOLEAN :
            (ObsSend(f, ok) /\ pass'[f] # NoPass)
            => Len(pass'[f].tl) < Len(pass[f].tl)]_vars
    /\ \A f \in Flows : (pass[f] # NoPass) ~> (pass[f] = NoPass)

\* a pass has ended in which every send failed: it found two tasks and one
\* idle client, and tried that client again for the second task after the
\* first send had put it back into the idle list
C22_AllSendsFailed ==
    /\ run.phase = "done"
    /\ ev.kind = "sendfail"
    /\ Len(run.pend0) = 2
    /\ Len(run.idle0) = 1
    /\ run.tried = run.pend0
    /\ run.sent = <<>>
    /\ pending_tasks = run.pend0

====
